---- MODULE Spec2Model ----
(***************************************************************************)
(* Model of newrelic/core/data_collector.py: the agent-to-collector        *)
(* communication layer.  send_request is modelled step by step (encode,    *)
(* post, status classification, decode, interpretation of the decoded      *)
(* body); its result is either a returned value or a raised exception.     *)
(* Also modelled: newrelic/hooks/messagebroker_pika.py, the wrapper of the *)
(* pika consume callbacks and the wrapper of BlockingChannel.consume.      *)
(***************************************************************************)
EXTENDS Integers, Sequences, FiniteSets, TLC

VARIABLES
    settings,   \* global_settings(): read-only configuration snapshot
    pc,         \* position inside send_request
    args,       \* arguments of the send_request call in progress
    params,     \* query parameters of the request
    headers,    \* request headers
    data,       \* serialized (and possibly compressed) request body
    r,          \* response obtained from requests.post
    result,     \* decoded response body
    out,        \* how the call ended: returned value or raised exception
    sent,       \* network requests issued by the call in progress
    log,        \* log records emitted by the call in progress
    calls,      \* number of operations completed
    op,         \* the operation in progress (a Session method or create_session)
    opout,      \* how the operation ended
    wire,       \* network requests issued by the operation in progress
    session,    \* the ApplicationSession the caller holds, or None
    terminal,   \* the session has yielded ForceAgentRestart or ForceAgentDisconnect
    other,      \* a second caller's request on the same session: outstanding or not
    chan,       \* a wrapped Channel.basic_consume / basic_get call and its deliveries
    gen         \* a generator returned by the wrapped BlockingChannel.consume

sendvars == <<pc, args, params, headers, data, r, result, out, sent, log>>
hookvars == <<chan, gen>>
opvars == <<op, opout, wire, session, terminal, calls, other, hookvars>>
vars == <<settings, pc, args, params, headers, data, r, result, out, sent, log,
          calls, op, opout, wire, session, terminal, other, chan, gen>>

(***************************************************************************)
(* Bounds of the model.                                                    *)
(***************************************************************************)
MaxCalls == 3

(***************************************************************************)
(* Python values.                                                          *)
(***************************************************************************)
Str(s, n) == [t |-> "str", s |-> s, n |-> n]      \* string s of n characters
Num(k) == [t |-> "num", k |-> k]
NoneV == [t |-> "none"]
Bool(b) == [t |-> "bool", b |-> b]
List(e) == [t |-> "list", e |-> e]
Tuple(e) == [t |-> "tuple", e |-> e]
Iter(e) == [t |-> "iter", e |-> e]                \* iterable that JSON has no type for
Obj == [t |-> "object"]                           \* neither a JSON type nor iterable
Dict(d) == [t |-> "dict", d |-> d]
EmptyMap == [k \in {} |-> NoneV]
Absent == [t |-> "absent"]                        \* a local not yet assigned

\* Python truthiness, as used by 'if not license_key' and 'if agent_run_id'.
Truthy(v) ==
    CASE v.t = "none" -> FALSE
      [] v.t = "bool" -> v.b
      [] v.t = "num" -> v.k # 0
      [] v.t = "str" -> v.n # 0
      [] v.t \in {"list", "tuple", "iter"} -> Len(v.e) # 0
      [] v.t = "dict" -> DOMAIN v.d # {}
      [] OTHER -> TRUE

(***************************************************************************)
(* Exception classes.                                                      *)
(***************************************************************************)
Parent(c) ==
    CASE c = "ServerIsUnavailable" -> "RetryDataForRequest"
      [] c \in {"ForceAgentRestart", "ForceAgentDisconnect",
                "DiscardDataForRequest", "RetryDataForRequest"}
            -> "NetworkInterfaceException"
      [] c \in {"ConnectionError", "SSLError", "Timeout"} -> "RequestException"
      [] c \in {"NetworkInterfaceException", "RequestException", "KeyError",
                "TypeError", "AttributeError"} -> "Exception"
      [] OTHER -> "BaseException"

RECURSIVE IsInstance(_, _)
IsInstance(c, k) ==
    IF c = k THEN TRUE
    ELSE IF c \in {"BaseException", ""} THEN FALSE
    ELSE IsInstance(Parent(c), k)

Return(v) == [kind |-> "return", exc |-> "", val |-> v]
Raise(c, v) == [kind |-> "raise", exc |-> c, val |-> v]
Running == [kind |-> "none", exc |-> "", val |-> Absent]
NoArg == [t |-> "noarg"]                          \* exception raised without argument
StrOfExc == Str("str(exc)", 8)                    \* the text of a caught exception

(***************************************************************************)
(* Library facilities the module calls.                                    *)
(***************************************************************************)
LoggerMethods == {"debug", "info", "warning", "error", "exception", "critical"}
ZlibFunctions == {"compress", "decompress"}

\* A call of _logger.<level>(...) followed by the statement that yields o:
\* a method the logger does not have fails the attribute lookup instead.
ViaLogger(level, o) ==
    IF level \in LoggerMethods THEN o ELSE Raise("AttributeError", Str(level, 0))

LogRec(level, what, withPayload, withData) ==
    [level |-> level, what |-> what, payload |-> withPayload, data |-> withData]

Logged(level, what, withPayload, withData) ==
    IF level \in LoggerMethods
        THEN <<LogRec(level, what, withPayload, withData)>> ELSE <<>>

(***************************************************************************)
(* Payload codec: json.dumps with the 'treat any iterable as a list'       *)
(* fallback, then size-based compression.                                  *)
(***************************************************************************)
CompressThreshold == 65536
BestCompressionThreshold == 2000000
FastLevel == 1
BestLevel == 9

RECURSIVE JsonFails(_)
\* json.dumps raises: some element is no JSON type and default's
\* list(iter(o)) raises TypeError for it.
JsonFails(v) ==
    CASE v.t = "object" -> TRUE
      [] v.t \in {"list", "tuple", "iter"} ->
            \E i \in 1..Len(v.e) : JsonFails(v.e[i])
      [] v.t = "dict" -> \E k \in DOMAIN v.d : JsonFails(v.d[k])
      [] OTHER -> FALSE

RECURSIVE ToJson(_)
\* The JSON document json.dumps writes: tuples are written as arrays and
\* so is whatever default turns into list(iter(o)).
ToJson(v) ==
    CASE v.t \in {"list", "tuple", "iter"} ->
            List([i \in 1..Len(v.e) |-> ToJson(v.e[i])])
      [] v.t = "dict" -> Dict([k \in DOMAIN v.d |-> ToJson(v.d[k])])
      [] OTHER -> v

RECURSIVE Digits(_)
Digits(k) == IF k < 10 THEN 1 ELSE 1 + Digits(k \div 10)

\* Number of characters of the keys that appear in serialized objects.
KeyLen(k) ==
    CASE k = "pid" -> 3
      [] k = "host" -> 4
      [] k \in {"language", "app_name", "settings"} -> 8
      [] k = "identifier" -> 10
      [] k = "environment" -> 11
      [] k \in {"agent_run_id", "some_setting"} -> 12
      [] k = "agent_version" -> 13

RECURSIVE JsonLen(_)
RECURSIVE SumJsonLen(_)
RECURSIVE SumMemberLen(_, _)
SumJsonLen(e) == IF e = <<>> THEN 0 ELSE JsonLen(Head(e)) + SumJsonLen(Tail(e))

\* The members '"key": value' of an object.
SumMemberLen(d, keys) ==
    IF keys = {} THEN 0
    ELSE LET k == CHOOSE x \in keys : TRUE IN
         KeyLen(k) + 4 + JsonLen(d[k]) + SumMemberLen(d, keys \ {k})

\* Number of characters of the document, with json.dumps' default
\* separators ', ' between the elements of an array.
JsonLen(j) ==
    CASE j.t = "str" -> j.n + 2
      [] j.t = "num" -> Digits(j.k)
      [] j.t = "none" -> 4
      [] j.t = "bool" -> IF j.b THEN 4 ELSE 5
      [] j.t = "list" ->
            2 + SumJsonLen(j.e) + (IF Len(j.e) > 1 THEN 2 * (Len(j.e) - 1) ELSE 0)
      [] j.t = "dict" ->
            2 + SumMemberLen(j.d, DOMAIN j.d)
              + (IF Cardinality(DOMAIN j.d) > 1
                     THEN 2 * (Cardinality(DOMAIN j.d) - 1) ELSE 0)

Bytes(doc) == [t |-> "bytes", doc |-> doc, len |-> JsonLen(doc)]

\* data = json.dumps(payload, ...), or the exception it raises
JsonDumps(payload) ==
    IF JsonFails(payload) THEN [ok |-> FALSE, data |-> Absent]
    ELSE [ok |-> TRUE, data |-> Bytes(ToJson(payload))]

ZlibCompress(d, level) == [t |-> "deflated", of |-> d, level |-> level]
ZlibDecompress(d) == d.of

\* Faulty variant: a document of exactly the threshold size is compressed too.
ContentEncoding_AtOrOver(n) == IF n >= CompressThreshold THEN "deflate" ELSE "identity"

\* if len(data) > 64*1024: headers['Content-Encoding'] = 'deflate'
ContentEncoding(n) == IF n > CompressThreshold THEN "deflate" ELSE "identity"

\* Faulty variant: a document of exactly the second threshold is still compressed fast.
CompressionLevel_BestAbove(n) ==
    IF n <= BestCompressionThreshold THEN FastLevel ELSE BestLevel

\* level = (len(data) < 2000000) and 1 or 9
CompressionLevel(n) == IF n < BestCompressionThreshold THEN FastLevel ELSE BestLevel

\* Faulty variant: the header is set but zlib.compress is not called.
Body_NeverCompresses(d) == d

Body(d) ==
    IF ContentEncoding(d.len) = "deflate"
        THEN ZlibCompress(d, CompressionLevel(d.len)) ELSE d

(***************************************************************************)
(* Response classification: HTTP status first, then the decoded body.      *)
(***************************************************************************)
Discard == "DiscardDataForRequest"
Retry == "RetryDataForRequest"

\* Faulty variant: the 503 branch is missing, so 503 falls to the final '!= 200' branch.
StatusException_No503(status) ==
    IF status # 200 THEN Discard ELSE ""

\* The exception class the if/elif chain on r.status_code raises, "" for
\* a status that falls through to the decoding of the body.
StatusException(status) ==
    IF status = 400 THEN Discard
    ELSE IF status = 413 THEN Discard
    ELSE IF status = 415 THEN Discard
    ELSE IF status = 503 THEN "ServerIsUnavailable"
    ELSE IF status # 200 THEN Discard
    ELSE ""

\* The logger method each branch of the chain calls before it raises.
StatusLogLevel(status) ==
    IF status = 400 THEN "error" ELSE "warning"

\* The 415 branch with settings.debug.log_malformed_json_data set: the
\* rejected data is logged, decompressed first when it was sent deflated.
DumpsRejectedData(status, flag) == status = 415 /\ flag

UncompressFails(status, flag, encoding) ==
    /\ DumpsRejectedData(status, flag)
    /\ encoding = "deflate"
    /\ "uncompress" \notin ZlibFunctions

HandleStatus(status, content, flag, encoding) ==
    LET exc == StatusException(status) IN
    IF exc = "" THEN Running
    ELSE ViaLogger("debug",
           ViaLogger(StatusLogLevel(status),
             IF UncompressFails(status, flag, encoding)
                 THEN Raise("AttributeError", Str("uncompress", 10))
             ELSE IF DumpsRejectedData(status, flag)
                 THEN ViaLogger("debug", Raise(exc, content))
             ELSE IF status = 415 THEN Raise(exc, content)
             ELSE Raise(exc, NoArg)))

StatusLogs(status, flag, encoding) ==
    IF status = 200 THEN <<>>
    ELSE Logged("debug", "non_200_response", FALSE, FALSE)
         \o Logged(StatusLogLevel(status),
                   IF status = 400 THEN "bad_request"
                   ELSE IF status = 413 THEN "request_too_large"
                   ELSE IF status = 415 THEN "malformed_json_sent"
                   ELSE IF status = 503 THEN "unavailable"
                   ELSE "unexpected_status",
                   status \notin {413, 415, 503}, FALSE)
         \o (IF DumpsRejectedData(status, flag)
                 /\ ~UncompressFails(status, flag, encoding)
             THEN Logged("debug", "rejected_data", FALSE, TRUE) ELSE <<>>)

\* result = json.loads(r.content, encoding='UTF-8'), or the exception raised
JsonLoads(content) ==
    IF content.t = "json" THEN [ok |-> TRUE, v |-> content.doc]
    ELSE [ok |-> FALSE, v |-> Absent]

\* Faulty variant: the handler re-raises the decoder's error once it has logged the content.
DecodeFailure_Reraise(flag) ==
    IF flag THEN Raise("ValueError", StrOfExc) ELSE Raise(Discard, StrOfExc)

\* except Exception, exc: ... raise DiscardDataForRequest(str(exc))
DecodeFailure(flag) ==
    ViaLogger("error",
      IF flag THEN ViaLogger("debug", Raise(Discard, StrOfExc))
      ELSE Raise(Discard, StrOfExc))

DecodeFailureLogs(flag) ==
    Logged("error", "decode_failed", FALSE, FALSE)
    \o (IF flag THEN Logged("debug", "undecodable_content", FALSE, FALSE) ELSE <<>>)

\* Python's 'key in c'.  For a string c this is substring search, which
\* over the strings used here coincides with equality.
PyIn(key, c) ==
    CASE c.t = "dict" -> [exc |-> "", b |-> key \in DOMAIN c.d]
      [] c.t = "list" ->
            [exc |-> "", b |-> \E i \in 1..Len(c.e) :
                                  c.e[i].t = "str" /\ c.e[i].s = key]
      [] c.t = "str" -> [exc |-> "", b |-> c.s = key]
      [] OTHER -> [exc |-> "TypeError", b |-> FALSE]

\* Python's c[key] for a string key.
PyGetItem(c, key) ==
    IF c.t = "dict"
        THEN IF key \in DOMAIN c.d THEN [exc |-> "", v |-> c.d[key]]
             ELSE [exc |-> "KeyError", v |-> Absent]
    ELSE [exc |-> "TypeError", v |-> Absent]

IsStr(v, s) == v.t = "str" /\ v.s = s

LicenseException == "NewRelic::Agent::LicenseException"
PostTooBigException == "NewRelic::Agent::PostTooBigException"
ForceRestartException == "NewRelic::Agent::ForceRestartException"
ForceDisconnectException == "NewRelic::Agent::ForceDisconnectException"

\* Faulty variant: the ForceRestartException branch is missing.
ErrorTypeException_NoRestart(error_type) ==
    IF IsStr(error_type, ForceDisconnectException) THEN "ForceAgentDisconnect"
    ELSE Discard

\* Faulty variant: an unrecognised error_type is treated as transient.
ErrorTypeException_UnknownRetry(error_type) ==
    IF IsStr(error_type, LicenseException) THEN Discard
    ELSE IF IsStr(error_type, PostTooBigException) THEN Discard
    ELSE IF IsStr(error_type, ForceRestartException) THEN "ForceAgentRestart"
    ELSE IF IsStr(error_type, ForceDisconnectException) THEN "ForceAgentDisconnect"
    ELSE Retry

\* The exception class raised for a server side error_type.
ErrorTypeException(error_type) ==
    IF IsStr(error_type, LicenseException) THEN Discard
    ELSE IF IsStr(error_type, PostTooBigException) THEN Discard
    ELSE IF IsStr(error_type, ForceRestartException) THEN "ForceAgentRestart"
    ELSE IF IsStr(error_type, ForceDisconnectException) THEN "ForceAgentDisconnect"
    ELSE Discard

\* The logger method called before that exception is raised.
ErrorTypeLogLevel(error_type) ==
    IF IsStr(error_type, LicenseException) THEN "error"
    ELSE IF IsStr(error_type, PostTooBigException) THEN "warning"
    ELSE IF IsStr(error_type, ForceRestartException) THEN "info"
    ELSE IF IsStr(error_type, ForceDisconnectException) THEN "alert"
    ELSE "warning"

KnownErrorTypes ==
    {LicenseException, PostTooBigException, ForceRestartException,
     ForceDisconnectException}

HandleException(error_type, message) ==
    ViaLogger("debug",
      ViaLogger(ErrorTypeLogLevel(error_type),
        Raise(ErrorTypeException(error_type), message)))

\* Faulty variant: 'if result.get("return_value")' tests the value, not the key.
HasReturnValue_Truthy(res) ==
    [exc |-> "",
     b |-> res.t = "dict" /\ "return_value" \in DOMAIN res.d
           /\ Truthy(res.d["return_value"])]

\* if 'return_value' in result: return result['return_value']
HasReturnValue(res) == PyIn("return_value", res)

HandleResult(res) ==
    LET has == HasReturnValue(res) IN
    IF has.exc # "" THEN Raise(has.exc, NoArg)
    ELSE IF has.b THEN
        LET g == PyGetItem(res, "return_value") IN
        IF g.exc # "" THEN Raise(g.exc, NoArg) ELSE Return(g.v)
    ELSE
        LET e == PyGetItem(res, "exception") IN
        IF e.exc # "" THEN Raise(e.exc, NoArg)
        ELSE LET et == PyGetItem(e.v, "error_type") IN
             IF et.exc # "" THEN Raise(et.exc, NoArg)
             ELSE LET m == PyGetItem(e.v, "message") IN
                  IF m.exc # "" THEN Raise(m.exc, NoArg)
                  ELSE HandleException(et.v, m.v)

\* The log records written on the way to HandleResult's outcome.
ResultLogs(res) ==
    LET o == HandleResult(res) IN
    IF o.kind = "return" \/ ~IsInstance(o.exc, "NetworkInterfaceException")
        THEN IF o.exc = "AttributeError"
                 THEN Logged("debug", "server_exception", FALSE, FALSE)
             ELSE <<>>
    ELSE LET et == res.d["exception"].d["error_type"] IN
         Logged("debug", "server_exception", FALSE, FALSE)
         \o Logged(ErrorTypeLogLevel(et),
                   IF et.t = "str" /\ et.s \in KnownErrorTypes
                       THEN et.s ELSE "unexpected_server_error",
                   ~(et.t = "str" /\ et.s \in KnownErrorTypes), FALSE)

(***************************************************************************)
(* Inputs: what callers pass and what the collector may answer.            *)
(***************************************************************************)
LicenseKeys == {NoneV, Str("0123abc", 7)}
RunId == Str("abc123", 6)
StartTime == Num(100)
EndTime == Num(160)

\* A list holding one string, chosen so that the 'metric_data' payload of a
\* session with run id RunId serializes to exactly n characters.
MetricsOfSize(n) ==
    List(<<Str("x", n - JsonLen(ToJson(
        Tuple(<<RunId, StartTime, EndTime, List(<<Str("x", 0)>>)>>))))>>)

\* What callers pass as metric_data.
MetricData ==
    { List(<<>>),
      List(<<Str("m", 1), Num(12)>>),
      Iter(<<List(<<Iter(<<Num(1), NoneV>>)>>)>>),
      List(<<Obj>>),
      MetricsOfSize(CompressThreshold),
      MetricsOfSize(CompressThreshold + 1),
      MetricsOfSize(BestCompressionThreshold - 1),
      MetricsOfSize(BestCompressionThreshold) }

\* What callers pass as errors, transaction traces and SQL traces.
Collections ==
    { List(<<>>),
      Iter(<<>>),
      List(<<Str("t1", 2), Str("t2", 2)>>),
      Iter(<<Str("t1", 2)>>),
      List(<<Obj>>) }

AppName == Str("app", 3)
LinkedApplications == {<<Str("other", 5)>>}

Message == Str("reason", 6)
ErrorTypes ==
    {Str(et, 0) : et \in KnownErrorTypes}
    \cup {Str("NewRelic::Agent::RuntimeError", 0), NoneV}

ReturnValues ==
    { NoneV, Bool(FALSE), Str("", 0),
      Str("collector-2.example.com", 23),
      Dict([agent_run_id |-> Str("abc123", 6), some_setting |-> Num(5)]),
      Dict([some_setting |-> Num(5)]) }

ExceptionBody(et, m) == Dict([exception |-> Dict([error_type |-> et, message |-> m])])

\* Documents of the shape the protocol describes.
ProtocolDocs ==
    {Dict([return_value |-> v]) : v \in ReturnValues}
    \cup {ExceptionBody(et, Message) : et \in ErrorTypes}

\* Valid JSON of any other shape.
OtherDocs ==
    { Dict(EmptyMap),
      Dict([exception |-> Dict([error_type |-> Str(ForceRestartException, 0)])]),
      Dict([exception |-> Dict([message |-> Message])]),
      Dict([exception |-> Str("error", 5)]),
      Dict([return_value |-> Num(1),
            exception |-> Dict([error_type |-> Str(ForceRestartException, 0),
                                message |-> Message])]),
      List(<<Str("return_value", 12)>>),
      Str("return_value", 12),
      Num(5),
      NoneV }

Json(doc) == [t |-> "json", doc |-> doc]
Garbage == [t |-> "garbage"]

Contents == {Json(d) : d \in ProtocolDocs \cup OtherDocs} \cup {Garbage}

\* Bodies sent along with a status other than 200.
ErrorPageContents ==
    { Garbage,
      Json(ExceptionBody(Str(ForceDisconnectException, 0), Message)) }

Statuses == {200, 400, 404, 413, 415, 503}

Responses ==
    {[status |-> 200, content |-> c] : c \in Contents}
    \cup {[status |-> st, content |-> c] : st \in Statuses \ {200}, c \in ErrorPageContents}

\* Exceptions of the requests library raised before any response is received:
\* DNS failure and connection refusal, TLS handshake failure, timeout.
TransportFailures == {"ConnectionError", "SSLError", "Timeout"}

(***************************************************************************)
(* send_request, step by step.                                             *)
(***************************************************************************)
PyStr(v) ==
    CASE v.t = "str" -> v.s
      [] v.t = "num" -> ToString(v.k)
      [] v.t = "bool" -> IF v.b THEN "True" ELSE "False"
      [] v.t = "list" -> "[...]"
      [] v.t = "dict" -> "{...}"
      [] OTHER -> "None"

NoLicenseKey == "NO LICENSE KEY WAS SET IN AGENT CONFIGURATION"

Params(method, license_key, agent_run_id) ==
    LET base == [method |-> method,
                 license_key |-> IF Truthy(license_key) THEN PyStr(license_key)
                                 ELSE NoLicenseKey,
                 protocol_version |-> "9",
                 marshal_format |-> "json"]
    IN IF Truthy(agent_run_id)
           THEN base @@ [run_id |-> PyStr(agent_run_id)] ELSE base

InitialHeaders ==
    ("User-Agent" :> "NewRelic-PythonAgent")
    @@ ("Content-Encoding" :> "identity")
    @@ ("Connection" :> "Keep-Alive")

NoResponse == [status |-> 0, content |-> Absent]

NoOp == [name |-> "none"]

\* global_settings() of a production agent: TLS, no port configured.
ProductionSettings ==
    [log_malformed_json_data : BOOLEAN, ssl : {TRUE},
     host : {"collector.newrelic.com"}, port : {0}, license_key : {NoneV}]

\* global_settings() with and without TLS, with and without a port.
EndpointSettings ==
    [log_malformed_json_data : {FALSE}, ssl : BOOLEAN,
     host : {"collector.newrelic.com"}, port : {0, 8080}, license_key : {NoneV}]

\* No operation in progress, no session.
Quiescent ==
    /\ op = NoOp
    /\ opout = Running
    /\ wire = <<>>
    /\ session = NoneV
    /\ terminal = FALSE
    /\ other = "idle"
    /\ pc = "idle"
    /\ args = Absent
    /\ params = EmptyMap
    /\ headers = EmptyMap
    /\ data = Absent
    /\ r = NoResponse
    /\ result = Absent
    /\ out = Running
    /\ sent = <<>>
    /\ log = <<>>
    /\ calls = 0
    /\ chan = [phase |-> "none"]
    /\ gen = [state |-> "none"]

Init == settings \in ProductionSettings /\ Quiescent

InitEndpoint == settings \in EndpointSettings /\ Quiescent

\* Entry of send_request with the arguments its caller passed: parameters
\* and headers are set up.
SendRequest ==
    /\ pc = "call"
    /\ params' = Params(args.method, args.license_key, args.agent_run_id)
    /\ headers' = InitialHeaders
    /\ data' = Absent
    /\ r' = NoResponse
    /\ result' = Absent
    /\ out' = Running
    /\ sent' = <<>>
    /\ pc' = "encode"
    /\ UNCHANGED <<settings, args, log>>
    /\ UNCHANGED opvars

EncodeFailure == ViaLogger("error", Raise(Discard, StrOfExc))

\* Faulty variant: the encoding error is logged but not raised, and the request goes out.
Encode_SendsAnyway ==
    /\ pc = "encode"
    /\ LET enc == JsonDumps(args.payload) IN
       /\ data' = IF enc.ok THEN Body(enc.data) ELSE Absent
       /\ headers' = [headers EXCEPT
                         !["Content-Encoding"] =
                             IF enc.ok THEN ContentEncoding(enc.data.len) ELSE @]
       /\ log' = IF enc.ok THEN log
                 ELSE log \o Logged("error", "encode_failed", TRUE, FALSE)
    /\ pc' = "post"
    /\ UNCHANGED <<settings, args, params, r, result, out, sent>>
    /\ UNCHANGED opvars

\* Faulty variant: the document is compressed but the header keeps 'identity'.
Encode_StaleHeader ==
    /\ pc = "encode"
    /\ LET enc == JsonDumps(args.payload) IN
       IF enc.ok
           THEN /\ data' = Body(enc.data)
                /\ pc' = "post"
                /\ UNCHANGED <<out, log>>
           ELSE /\ out' = EncodeFailure
                /\ log' = log \o Logged("error", "encode_failed", TRUE, FALSE)
                /\ pc' = "done"
                /\ UNCHANGED data
    /\ UNCHANGED <<settings, args, params, headers, r, result, sent>>
    /\ UNCHANGED opvars

\* json.dumps of the payload, then compression of a large document.
Encode ==
    /\ pc = "encode"
    /\ LET enc == JsonDumps(args.payload) IN
       IF enc.ok
           THEN /\ data' = Body(enc.data)
                /\ headers' = [headers EXCEPT
                                  !["Content-Encoding"] = ContentEncoding(enc.data.len)]
                /\ pc' = "post"
                /\ UNCHANGED <<out, log>>
           ELSE /\ out' = EncodeFailure
                /\ log' = log \o Logged("error", "encode_failed", TRUE, FALSE)
                /\ pc' = "done"
                /\ UNCHANGED <<data, headers>>
    /\ UNCHANGED <<settings, args, params, r, result, sent>>
    /\ UNCHANGED opvars

\* The timeout requests.post is called with: none is passed.
PostTimeout == NoneV

Request ==
    [url |-> args.url, params |-> params, headers |-> headers, data |-> data,
     verify |-> FALSE, timeout |-> PostTimeout]

\* Faulty variant: only requests.ConnectionError is caught.
PostFailure_ConnectionErrorOnly(exc) ==
    IF IsInstance(exc, "ConnectionError")
        THEN ViaLogger("warning", Raise(Retry, StrOfExc))
    ELSE Raise(exc, NoArg)

\* except requests.RequestException, exc: raise RetryDataForRequest(str(exc))
PostFailure(exc) ==
    IF IsInstance(exc, "RequestException")
        THEN ViaLogger("warning", Raise(Retry, StrOfExc))
    ELSE Raise(exc, NoArg)

\* requests.post: the collector answers, or the transport fails first, or
\* the collector stays silent.  A silent collector ends the call with the
\* library's Timeout when a timeout was passed; without one the call waits.
Post ==
    /\ pc = "post"
    /\ sent' = Append(sent, Request)
    /\ wire' = Append(wire, Request)
    /\ \/ /\ \E resp \in Responses : r' = resp
          /\ pc' = "status"
          /\ UNCHANGED <<out, log>>
       \/ /\ \E exc \in TransportFailures : out' = PostFailure(exc)
          /\ log' = log \o Logged("warning", "unable_to_connect", FALSE, FALSE)
          /\ pc' = "done"
          /\ UNCHANGED r
       \/ /\ IF Request.timeout = NoneV
                 THEN /\ pc' = "waiting"
                      /\ UNCHANGED <<out, log>>
                 ELSE /\ out' = PostFailure("Timeout")
                      /\ log' = log \o Logged("warning", "unable_to_connect", FALSE, FALSE)
                      /\ pc' = "done"
          /\ UNCHANGED r
    /\ UNCHANGED <<settings, args, params, headers, data, result>>
    /\ UNCHANGED <<op, opout, session, terminal, calls, other, hookvars>>

\* Faulty variant: a 503 is answered by posting the request once more.
CheckStatus_RetriesOn503 ==
    /\ pc = "status"
    /\ LET flag == settings.log_malformed_json_data
           encoding == headers["Content-Encoding"]
           o == HandleStatus(r.status, r.content, flag, encoding)
       IN IF r.status = 503 /\ Len(sent) < 2
              THEN pc' = "post" /\ UNCHANGED <<out, log>>
              ELSE /\ log' = log \o StatusLogs(r.status, flag, encoding)
                   /\ IF o.kind = "none"
                          THEN pc' = "decode" /\ UNCHANGED out
                          ELSE pc' = "done" /\ out' = o
    /\ UNCHANGED <<settings, args, params, headers, data, r, result, sent>>
    /\ UNCHANGED opvars

\* The if/elif chain on r.status_code.
CheckStatus ==
    /\ pc = "status"
    /\ LET flag == settings.log_malformed_json_data
           encoding == headers["Content-Encoding"]
           o == HandleStatus(r.status, r.content, flag, encoding)
       IN /\ log' = log \o StatusLogs(r.status, flag, encoding)
          /\ IF o.kind = "none"
                 THEN pc' = "decode" /\ UNCHANGED out
                 ELSE pc' = "done" /\ out' = o
    /\ UNCHANGED <<settings, args, params, headers, data, r, result, sent>>
    /\ UNCHANGED opvars

\* json.loads of the response content.
Decode ==
    /\ pc = "decode"
    /\ LET flag == settings.log_malformed_json_data
           dec == JsonLoads(r.content)
       IN IF dec.ok
              THEN /\ result' = dec.v
                   /\ pc' = "result"
                   /\ UNCHANGED <<out, log>>
              ELSE /\ out' = DecodeFailure(flag)
                   /\ log' = log \o DecodeFailureLogs(flag)
                   /\ pc' = "done"
                   /\ UNCHANGED result
    /\ UNCHANGED <<settings, args, params, headers, data, r, sent>>
    /\ UNCHANGED opvars

\* The decoded body is a return value or a server side exception.
Interpret ==
    /\ pc = "result"
    /\ out' = HandleResult(result)
    /\ log' = log \o ResultLogs(result)
    /\ pc' = "done"
    /\ UNCHANGED <<settings, args, params, headers, data, r, result, sent>>
    /\ UNCHANGED opvars

(***************************************************************************)
(* The outcome a finished call communicates to its caller.                 *)
(***************************************************************************)
Outcome(o) ==
    IF o.kind = "return" THEN "Success"
    ELSE IF IsInstance(o.exc, "RetryDataForRequest") THEN "Retry"
    ELSE IF IsInstance(o.exc, "DiscardDataForRequest") THEN "Discard"
    ELSE IF IsInstance(o.exc, "ForceAgentRestart") THEN "Restart"
    ELSE IF IsInstance(o.exc, "ForceAgentDisconnect") THEN "Disconnect"
    ELSE "Unclassified"

(***************************************************************************)
(* Endpoint of the collector.                                              *)
(***************************************************************************)
CollectorPath == "/agent_listener/invoke_raw_method"

\* Faulty variant: the port is appended also when none is configured.
DefaultServer_AlwaysPort == settings.host \o ":" \o ToString(settings.port)

\* The configured 'host' or 'host:port'.
DefaultServer ==
    IF settings.port # 0
        THEN settings.host \o ":" \o ToString(settings.port)
    ELSE settings.host

collector_url(server) ==
    [scheme |-> IF settings.ssl THEN "https" ELSE "http",
     server |-> IF ~Truthy(server) THEN DefaultServer ELSE PyStr(server),
     path |-> CollectorPath]

(***************************************************************************)
(* ApplicationSession and its operations.  Each is a caller of            *)
(* send_request: it passes the arguments and gets the call's outcome.      *)
(***************************************************************************)
SessionOps ==
    {"shutdown_session", "send_metric_data", "send_errors",
     "send_transaction_traces", "send_sql_traces"}

CanStart == pc = "idle" /\ calls < MaxCalls

\* Faulty variant: the credential is read from the global settings.
SessionCall_GlobalKey(method, payload) ==
    [url |-> session.collector_url, method |-> method,
     license_key |-> settings.license_key,
     agent_run_id |-> session.agent_run_id, payload |-> payload]

\* The arguments every Session operation passes to send_request.
SessionCall(method, payload) ==
    [url |-> session.collector_url, method |-> method,
     license_key |-> session.license_key,
     agent_run_id |-> session.agent_run_id, payload |-> payload]

\* list(errors), list(transaction_traces), list(sql_traces)
PyList(v) == List(v.e)

\* Faulty variant: the test for an empty collection is missing.
ShortCircuits_Never(items) == FALSE

\* if not errors: return
ShortCircuits(items) == ~Truthy(items)

MetricDataPayload(run_id, start_time, end_time, metric_data) ==
    Tuple(<<run_id, start_time, end_time, metric_data>>)

ErrorDataPayload(run_id, errors) == Tuple(<<run_id, errors>>)

TransactionSamplePayload(run_id, transaction_traces) ==
    Tuple(<<run_id, transaction_traces>>)

\* Faulty variant: the run id leads the SQL trace payload as it does the others.
SqlTracePayload_WithRunId(run_id, sql_traces) == Tuple(<<run_id, sql_traces>>)

SqlTracePayload(run_id, sql_traces) == Tuple(<<sql_traces>>)

\* An operation starts: nothing of an earlier operation is left.
Begin(o, records) ==
    /\ CanStart
    /\ op' = o
    /\ wire' = <<>>
    /\ log' = records
    /\ UNCHANGED <<settings, params, headers, data, r, result, out, sent,
                   session, terminal, calls, other, hookvars>>

shutdown_session ==
    /\ session # NoneV
    /\ Begin([name |-> "shutdown_session", input |-> NoneV],
             Logged("debug", "terminate_session", FALSE, FALSE))
    /\ args' = SessionCall("shutdown", Tuple(<<>>))
    /\ opout' = Running
    /\ pc' = "call"

\* Faulty variant: empty metric data returns at once, as the collections do.
send_metric_data_SkipsEmpty ==
    /\ session # NoneV
    /\ \E metric_data \in MetricData :
          /\ Begin([name |-> "send_metric_data", input |-> metric_data], <<>>)
          /\ IF ~Truthy(metric_data)
                 THEN /\ pc' = "return"
                      /\ opout' = Return(NoneV)
                      /\ UNCHANGED args
                 ELSE /\ pc' = "call"
                      /\ opout' = Running
                      /\ args' = SessionCall("metric_data",
                                     MetricDataPayload(session.agent_run_id, StartTime,
                                                       EndTime, metric_data))

send_metric_data ==
    /\ session # NoneV
    /\ \E metric_data \in MetricData :
          /\ Begin([name |-> "send_metric_data", input |-> metric_data], <<>>)
          /\ args' = SessionCall("metric_data",
                         MetricDataPayload(session.agent_run_id, StartTime,
                                           EndTime, metric_data))
    /\ opout' = Running
    /\ pc' = "call"

\* The three operations on a collection: an empty one returns at once.
SendCollection(name, method, Payload(_, _)) ==
    /\ session # NoneV
    /\ \E items \in Collections :
          /\ Begin([name |-> name, input |-> items], <<>>)
          /\ IF ShortCircuits(PyList(items))
                 THEN /\ pc' = "return"
                      /\ opout' = Return(NoneV)
                      /\ UNCHANGED args
                 ELSE /\ pc' = "call"
                      /\ opout' = Running
                      /\ args' = SessionCall(method,
                                     Payload(session.agent_run_id, PyList(items)))

send_errors == SendCollection("send_errors", "error_data", ErrorDataPayload)

send_transaction_traces ==
    SendCollection("send_transaction_traces", "transaction_sample_data",
                   TransactionSamplePayload)

send_sql_traces == SendCollection("send_sql_traces", "sql_trace_data", SqlTracePayload)

\* Faulty variant: a failed call makes the session forget its run id.
SessionReturn_ForgetsRunId ==
    /\ pc = "done"
    /\ op.name \in SessionOps
    /\ opout' = out
    /\ pc' = "return"
    /\ session' = IF out.kind = "raise"
                      THEN [session EXCEPT !.agent_run_id = NoneV] ELSE session
    /\ UNCHANGED <<settings, args, params, headers, data, r, result, out, sent, log>>
    /\ UNCHANGED <<op, wire, terminal, calls, other, hookvars>>

\* 'return send_request(...)': the operation ends the way the call ended.
SessionReturn ==
    /\ pc = "done"
    /\ op.name \in SessionOps
    /\ opout' = out
    /\ pc' = "return"
    /\ UNCHANGED <<settings, args, params, headers, data, r, result, out, sent, log>>
    /\ UNCHANGED <<op, wire, session, terminal, calls, other, hookvars>>

(***************************************************************************)
(* create_session: the registration handshake.                             *)
(***************************************************************************)
RECURSIVE Join(_)
\* ','.join(app_names)
Join(names) ==
    IF Len(names) = 1 THEN names[1]
    ELSE LET rest == Join(Tail(names)) IN
         Str(names[1].s \o "," \o rest.s, names[1].n + 1 + rest.n)

\* The record sent with 'connect'.
LocalConfig(app_names) ==
    Dict([pid |-> Num(4242),
          language |-> Str("python", 6),
          host |-> Str("apphost", 7),
          app_name |-> List(app_names),
          identifier |-> Join(app_names),
          agent_version |-> Str("1.0.0", 5),
          environment |-> List(<<>>),
          settings |-> Dict(EmptyMap)])

\* send_request(url, 'get_redirect_host', license_key)
RedirectCall(license_key) ==
    [url |-> collector_url(NoneV), method |-> "get_redirect_host",
     license_key |-> license_key, agent_run_id |-> NoneV, payload |-> Tuple(<<>>)]

\* Faulty variant: 'connect' goes to the default endpoint again.
ConnectCall_DefaultEndpoint(redirect_host, license_key, app_names) ==
    [url |-> collector_url(NoneV), method |-> "connect",
     license_key |-> license_key, agent_run_id |-> NoneV,
     payload |-> Tuple(<<LocalConfig(app_names)>>)]

\* send_request(url, 'connect', license_key, None, payload)
ConnectCall(redirect_host, license_key, app_names) ==
    [url |-> collector_url(redirect_host), method |-> "connect",
     license_key |-> license_key, agent_run_id |-> NoneV,
     payload |-> Tuple(<<LocalConfig(app_names)>>)]

\* The settings of the agent before the server's are laid over them.
LocalSnapshot == [some_setting |-> Num(1), apdex_t |-> Num(2)]

\* create_settings_snapshot(server_config): the local snapshot overlaid by
\* the server's configuration, the server's value winning for a key of both.
create_settings_snapshot(server_config) ==
    IF server_config.t # "dict" THEN [exc |-> "AttributeError", v |-> Absent]
    ELSE [exc |-> "",
          v |-> Dict([k \in DOMAIN LocalSnapshot \cup DOMAIN server_config.d |->
                        IF k \in DOMAIN server_config.d THEN server_config.d[k]
                        ELSE LocalSnapshot[k]])]

\* configuration.<name>
PyGetAttr(o, name) ==
    IF o.t = "dict" /\ name \in DOMAIN o.d THEN [exc |-> "", v |-> o.d[name]]
    ELSE [exc |-> "AttributeError", v |-> Absent]

\* Faulty variant: the configuration is read for the run id but not kept.
ApplicationSession_DropsConfiguration(url, license_key, configuration) ==
    LET run == PyGetAttr(configuration, "agent_run_id") IN
    IF run.exc # "" THEN Raise(run.exc, Str("agent_run_id", 12))
    ELSE Return([t |-> "session", collector_url |-> url,
                 license_key |-> license_key, configuration |-> NoneV,
                 agent_run_id |-> run.v])

\* ApplicationSession.__init__
ApplicationSession(url, license_key, configuration) ==
    LET run == PyGetAttr(configuration, "agent_run_id") IN
    IF run.exc # "" THEN Raise(run.exc, Str("agent_run_id", 12))
    ELSE Return([t |-> "session", collector_url |-> url,
                 license_key |-> license_key, configuration |-> configuration,
                 agent_run_id |-> run.v])

\* 'except NetworkInterfaceException: pass' and 'except: ... pass': the
\* function runs off its end and returns None.
HandshakeFailure(exc) == Return(NoneV)

HandshakeFailureLogs(exc) ==
    IF IsInstance(exc, "NetworkInterfaceException") THEN <<>>
    ELSE Logged("exception", "unexpected_exception", FALSE, FALSE)

\* The 'else' clause of the try statement: no handler covers it.
Registered(url, license_key, application_config) ==
    ViaLogger("debug", ApplicationSession(url, license_key, application_config))

create_session ==
    /\ \E license_key \in LicenseKeys, linked_applications \in LinkedApplications :
          LET key == IF Truthy(license_key) THEN license_key
                     ELSE settings.license_key
          IN /\ Begin([name |-> "create_session", stage |-> "redirect",
                       license_key |-> key,
                       app_names |-> <<AppName>> \o linked_applications,
                       redirect_host |-> Absent],
                      (IF Truthy(key) THEN <<>>
                       ELSE Logged("error", "no_license_key", FALSE, FALSE))
                      \o Logged("debug", "registering", FALSE, FALSE))
             /\ args' = RedirectCall(key)
    /\ opout' = Running
    /\ pc' = "call"

\* 'get_redirect_host' has ended: go on with 'connect', or give up.
CreateSessionConnect ==
    /\ pc = "done"
    /\ op.name = "create_session"
    /\ op.stage = "redirect"
    /\ IF out.kind = "return"
           THEN /\ op' = [op EXCEPT !.stage = "connect", !.redirect_host = out.val]
                /\ args' = ConnectCall(out.val, op.license_key, op.app_names)
                /\ pc' = "call"
                /\ UNCHANGED <<opout, log>>
           ELSE /\ opout' = HandshakeFailure(out.exc)
                /\ log' = log \o HandshakeFailureLogs(out.exc)
                /\ pc' = "return"
                /\ UNCHANGED <<op, args>>
    /\ UNCHANGED <<settings, params, headers, data, r, result, out, sent>>
    /\ UNCHANGED <<wire, session, terminal, calls, other, hookvars>>

\* 'connect' has ended: build the configuration and the session, or give up.
CreateSessionFinish ==
    /\ pc = "done"
    /\ op.name = "create_session"
    /\ op.stage = "connect"
    /\ IF out.kind = "return"
           THEN LET snapshot == create_settings_snapshot(out.val) IN
                IF snapshot.exc # ""
                    THEN /\ opout' = HandshakeFailure(snapshot.exc)
                         /\ log' = log \o HandshakeFailureLogs(snapshot.exc)
                    ELSE /\ opout' = Registered(args.url, op.license_key, snapshot.v)
                         /\ log' = log \o
                              (IF Registered(args.url, op.license_key,
                                             snapshot.v).kind = "return"
                                   THEN Logged("debug", "registered", FALSE, FALSE)
                               ELSE <<>>)
           ELSE /\ opout' = HandshakeFailure(out.exc)
                /\ log' = log \o HandshakeFailureLogs(out.exc)
    /\ pc' = "return"
    /\ UNCHANGED <<settings, args, params, headers, data, r, result, out, sent>>
    /\ UNCHANGED <<op, wire, session, terminal, calls, other, hookvars>>

(***************************************************************************)
(* The caller of the operations.                                           *)
(***************************************************************************)
\* The operation has returned or raised.  The caller keeps what
\* create_session returned as its session.
Complete ==
    /\ pc = "return"
    /\ pc' = "idle"
    /\ calls' = calls + 1
    /\ IF op.name = "create_session" /\ opout.kind = "return"
           THEN /\ session' = opout.val
                /\ terminal' = FALSE
           ELSE /\ session' = session
                /\ terminal' = (terminal
                                \/ (op.name \in SessionOps
                                    /\ Outcome(opout) \in {"Restart", "Disconnect"}))
    /\ op' = NoOp
    /\ opout' = Running
    /\ wire' = <<>>
    /\ args' = Absent
    /\ params' = EmptyMap
    /\ headers' = EmptyMap
    /\ data' = Absent
    /\ r' = NoResponse
    /\ result' = Absent
    /\ out' = Running
    /\ sent' = <<>>
    /\ log' = <<>>
    /\ UNCHANGED <<settings, other, hookvars>>

Next ==
    \/ shutdown_session
    \/ send_metric_data
    \/ send_errors
    \/ send_transaction_traces
    \/ send_sql_traces
    \/ create_session
    \/ SendRequest
    \/ Encode
    \/ Post
    \/ CheckStatus
    \/ Decode
    \/ Interpret
    \/ SessionReturn
    \/ CreateSessionConnect
    \/ CreateSessionFinish
    \/ Complete

Spec == Init /\ [][Next]_vars

(***************************************************************************)
(* A second caller on the same session.  No method of ApplicationSession   *)
(* takes a lock, so the second caller's send_request proceeds whatever the *)
(* first caller is doing.                                                  *)
(***************************************************************************)
\* The second caller's operation reaches requests.post.
OtherPost ==
    /\ session # NoneV
    /\ other = "idle"
    /\ other' = "outstanding"
    /\ UNCHANGED <<settings, sendvars, op, opout, wire, session, terminal, calls,
                   hookvars>>

\* The collector answers the second caller.
OtherResponse ==
    /\ other = "outstanding"
    /\ other' = "idle"
    /\ UNCHANGED <<settings, sendvars, op, opout, wire, session, terminal, calls,
                   hookvars>>

NextConcurrent == Next \/ OtherPost \/ OtherResponse

SpecConcurrent == Init /\ [][NextConcurrent]_vars

\* The same operations under every combination of TLS flag and port.
SpecEndpoint == InitEndpoint /\ [][Next]_vars

(***************************************************************************)
(* Vocabulary of the properties.                                           *)
(***************************************************************************)
Finished == pc = "done"
Answered == Finished /\ r # NoResponse
Answered200 == Answered /\ r.status = 200

\* The content decodes to an object without 'return_value' whose 'exception'
\* is an object with both 'error_type' and 'message'.
CarriesException(content) ==
    /\ content.t = "json"
    /\ content.doc.t = "dict"
    /\ "return_value" \notin DOMAIN content.doc.d
    /\ "exception" \in DOMAIN content.doc.d
    /\ content.doc.d["exception"].t = "dict"
    /\ {"error_type", "message"} \subseteq DOMAIN content.doc.d["exception"].d

ErrorTypeOf(content) == content.doc.d["exception"].d["error_type"]
MessageOf(content) == content.doc.d["exception"].d["message"]

CarriesReturnValue(content) ==
    /\ content.t = "json"
    /\ content.doc.t = "dict"
    /\ "return_value" \in DOMAIN content.doc.d

(***************************************************************************)
(* Claims.                                                                 *)
(***************************************************************************)

\* C1: every finished send_request call has returned a value or raised one
\* of RetryDataForRequest, DiscardDataForRequest, ForceAgentRestart,
\* ForceAgentDisconnect; nothing outside NetworkInterfaceException escapes.
C1_OneOfFiveOutcomes ==
    Finished => Outcome(out) \in {"Success", "Retry", "Discard", "Restart", "Disconnect"}

\* C2: status 200 with an exception of type ForceDisconnectException makes
\* send_request raise ForceAgentDisconnect carrying the server's message.
C2_ForceDisconnectYieldsDisconnect ==
    (Answered200 /\ CarriesException(r.content)
        /\ IsStr(ErrorTypeOf(r.content), ForceDisconnectException))
    => out = Raise("ForceAgentDisconnect", MessageOf(r.content))

\* C3: status 200 with an exception of type ForceRestartException makes
\* send_request raise ForceAgentRestart carrying the server's message, which
\* is the Restart outcome and no other.
C3_ForceRestartYieldsRestart ==
    (Answered200 /\ CarriesException(r.content)
        /\ IsStr(ErrorTypeOf(r.content), ForceRestartException))
    => /\ out = Raise("ForceAgentRestart", MessageOf(r.content))
       /\ Outcome(out) = "Restart"

C3_Witness ==
    /\ Answered200 /\ CarriesException(r.content)
    /\ IsStr(ErrorTypeOf(r.content), ForceRestartException)
    /\ out.exc = "ForceAgentRestart"

\* C4: a 503 response yields ServerIsUnavailable, a Retry, whatever its
\* body, and the body of a 503 response is never decoded.
C4_UnavailableYieldsRetry ==
    (r.status = 503)
    => /\ result = Absent
       /\ pc \notin {"decode", "result"}
       /\ Finished => (out.exc = "ServerIsUnavailable" /\ Outcome(out) = "Retry")

C4_Witness ==
    /\ Finished /\ r.status = 503
    /\ r.content = Json(ExceptionBody(Str(ForceDisconnectException, 0), Message))
    /\ Outcome(out) = "Retry"

\* C5: every response whose status is neither 200 nor 503 yields Discard,
\* whatever the debug flag and the content encoding of the request.
C5_OtherStatusYieldsDiscard ==
    (Answered /\ r.status \notin {200, 503}) => Outcome(out) = "Discard"

\* C6: status 200 with a decoded object holding 'return_value' makes
\* send_request return exactly that value, also a false, empty or null one.
C6_ReturnValueIsReturned ==
    (Answered200 /\ CarriesReturnValue(r.content))
    => out = Return(r.content.doc.d["return_value"])

C6_Witness ==
    /\ Answered200 /\ CarriesReturnValue(r.content)
    /\ r.content.doc.d["return_value"] = Bool(FALSE)
    /\ out = Return(Bool(FALSE))

\* C7: status 200 with an exception whose error_type is LicenseException,
\* PostTooBigException or anything other than the four recognised types
\* yields Discard carrying the server's message.
C7_OtherErrorTypesYieldDiscard ==
    (Answered200 /\ CarriesException(r.content)
        /\ ~IsStr(ErrorTypeOf(r.content), ForceRestartException)
        /\ ~IsStr(ErrorTypeOf(r.content), ForceDisconnectException))
    => /\ out = Raise(Discard, MessageOf(r.content))
       /\ Outcome(out) = "Discard"

C7_Witness ==
    /\ Answered200 /\ CarriesException(r.content)
    /\ ErrorTypeOf(r.content) = Str("NewRelic::Agent::RuntimeError", 0)
    /\ Outcome(out) = "Discard"

\* C8: status 200 with a body that is not valid JSON yields Discard, with
\* the debug flag set or not.
C8_UndecodableYieldsDiscard ==
    (Answered200 /\ JsonLoads(r.content).ok = FALSE) => Outcome(out) = "Discard"

C8_Witness ==
    /\ Answered200 /\ r.content = Garbage
    /\ settings.log_malformed_json_data
    /\ Outcome(out) = "Discard"

\* C9: a payload that cannot be serialized ends the call with Discard and
\* without any network request; a request is only ever issued with the
\* serialized data at hand.
C9_EncodeFailureSendsNothing ==
    /\ (args # Absent /\ JsonFails(args.payload))
           => (sent = <<>> /\ pc \notin {"post", "status", "decode", "result"}
               /\ (Finished => Outcome(out) = "Discard"))
    /\ \A i \in 1..Len(sent) : sent[i].data # Absent

C9_Witness ==
    /\ Finished /\ JsonFails(args.payload)
    /\ sent = <<>> /\ Outcome(out) = "Discard"

\* C10: a transport failure before any response (connection error, TLS
\* failure, timeout) ends the call with RetryDataForRequest.
C10_TransportFailureYieldsRetry ==
    (Finished /\ sent # <<>> /\ r = NoResponse)
    => (out.exc = Retry /\ Outcome(out) = "Retry")

C10_Witness ==
    /\ Finished /\ sent # <<>> /\ r = NoResponse
    /\ Outcome(out) = "Retry"

(***************************************************************************)
(* Claims about the Session operations and the handshake.                  *)
(***************************************************************************)
SendRequestStep ==
    SendRequest \/ Encode \/ Post \/ CheckStatus \/ Decode \/ Interpret

InCall == pc \in {"call", "encode", "post", "status", "decode", "result", "waiting"}

CollectionOps == {"send_errors", "send_transaction_traces", "send_sql_traces"}

Returned(name) == pc = "return" /\ op.name = name

\* The JSON document a request carries, decompressed when it was deflated.
WireDoc(req) ==
    IF req.data.t = "deflated" THEN ZlibDecompress(req.data).doc ELSE req.data.doc

\* C11: a send_request call in progress can always take its next step: it
\* never waits without end for a collector that does not answer.
C11_CallNeverWaitsForever == InCall => ENABLED SendRequestStep

\* C12: once an operation of the session has yielded Restart or Disconnect,
\* no later operation of that session issues a network request.
C12_TerminalSessionSendsNothing ==
    (terminal /\ op.name \in SessionOps) => wire = <<>>

\* C13: no step of a Session operation changes the session, and every
\* request of a Session operation goes to the session's URL with the
\* session's run id.
C13_SessionUnchanged ==
    /\ [][op.name \in SessionOps => session' = session]_vars
    /\ [](op.name \in SessionOps =>
            \A i \in 1..Len(wire) :
                /\ wire[i].url = session.collector_url
                /\ "run_id" \in DOMAIN wire[i].params
                /\ wire[i].params["run_id"] = PyStr(session.agent_run_id))

C13_Witness ==
    /\ Returned("send_metric_data")
    /\ Outcome(opout) = "Retry"
    /\ r.status = 503
    /\ Len(wire) = 1
    /\ wire[1].url = session.collector_url

\* C14 as stated: an empty collection issues no request and returns None; a
\* non-empty collection issues exactly one request.
C14_NonEmptyIssuesExactlyOne ==
    (pc = "return" /\ op.name \in CollectionOps)
    => IF Len(op.input.e) = 0
           THEN wire = <<>> /\ opout = Return(NoneV)
           ELSE Len(wire) = 1

\* C14 as amended: an empty collection issues no request and returns None
\* without send_request being called; a non-empty collection makes one
\* send_request call, which issues exactly one request unless the payload
\* cannot be serialized, and then none.
C14_NonEmptyIssuesOneUnlessEncodeFails ==
    (pc = "return" /\ op.name \in CollectionOps)
    => IF Len(op.input.e) = 0
           THEN wire = <<>> /\ opout = Return(NoneV) /\ args = Absent
           ELSE /\ Len(wire) = (IF JsonFails(op.input) THEN 0 ELSE 1)
                /\ out # Running
                /\ opout = out

C14_Witness ==
    /\ Returned("send_sql_traces")
    /\ op.input = Iter(<<>>)
    /\ wire = <<>>
    /\ opout = Return(NoneV)

\* C15 as stated: send_metric_data always issues one 'metric_data' request
\* whose body is (runId, start, end, metrics).
C15_MetricDataAlwaysIssued ==
    Returned("send_metric_data")
    => /\ Len(wire) = 1
       /\ wire[1].params["method"] = "metric_data"

\* C15 as amended: send_metric_data always calls send_request with method
\* 'metric_data' and payload (runId, start, end, metrics), also for empty
\* metrics; the request is issued, with that payload as its body, unless
\* the payload cannot be serialized.
C15_MetricDataIssuedUnlessEncodeFails ==
    (op.name = "send_metric_data")
    => /\ args # Absent
       /\ args.method = "metric_data"
       /\ args.payload.t = "tuple"
       /\ args.payload.e = <<session.agent_run_id, StartTime, EndTime, op.input>>
       /\ pc = "return" =>
            /\ out # Running
            /\ opout = out
            /\ Len(wire) = (IF JsonFails(op.input) THEN 0 ELSE 1)
            /\ \A i \in 1..Len(wire) :
                  /\ wire[i].params["method"] = "metric_data"
                  /\ WireDoc(wire[i]) =
                        List(<<session.agent_run_id, StartTime, EndTime,
                               ToJson(op.input)>>)

C15_Witness ==
    /\ Returned("send_metric_data")
    /\ op.input = List(<<>>)
    /\ Len(wire) = 1
    /\ WireDoc(wire[1]) = List(<<RunId, StartTime, EndTime, List(<<>>)>>)

\* C16: a 'sql_trace_data' request carries the one-element array [traces]
\* without the run id; 'error_data' and 'transaction_sample_data' requests
\* carry the two-element array [runId, items].
C16_SqlTracePayloadOmitsRunId ==
    \A i \in 1..Len(wire) :
        LET doc == WireDoc(wire[i])
            items == ToJson(PyList(op.input))
        IN /\ op.name = "send_sql_traces" =>
                /\ wire[i].params["method"] = "sql_trace_data"
                /\ doc.t = "list" /\ Len(doc.e) = 1 /\ doc.e[1] = items
           /\ op.name \in {"send_errors", "send_transaction_traces"} =>
                /\ wire[i].params["method"] =
                      (IF op.name = "send_errors" THEN "error_data"
                       ELSE "transaction_sample_data")
                /\ doc.t = "list" /\ Len(doc.e) = 2
                /\ doc.e[1] = session.agent_run_id /\ doc.e[2] = items

C16_Witness ==
    /\ Returned("send_sql_traces")
    /\ op.input = List(<<Str("t1", 2), Str("t2", 2)>>)
    /\ Len(wire) = 1
    /\ WireDoc(wire[1]) = List(<<List(<<Str("t1", 2), Str("t2", 2)>>)>>)

\* C17: shutdown_session always sends a 'shutdown' request and never
\* surfaces a failure of it: it returns whatever the request's outcome.
C17_ShutdownSwallowsFailures ==
    Returned("shutdown_session")
    => /\ Len(wire) = 1
       /\ wire[1].params["method"] = "shutdown"
       /\ opout.kind = "return"

IsSession(v) == v.t = "session"

\* C18: create_session never raises: it returns a Session or None.
C18_CreateSessionNeverRaises ==
    Returned("create_session")
    => /\ opout.kind = "return"
       /\ (opout.val = NoneV \/ IsSession(opout.val))

\* Both calls of the handshake yielded Success and the overlay succeeded.
HandshakeSucceeded ==
    /\ op.stage = "connect"
    /\ op.redirect_host # Absent
    /\ out.kind = "return"
    /\ create_settings_snapshot(out.val).exc = ""

\* C19: create_session returns a Session exactly when both calls yielded
\* Success and the overlay succeeded; otherwise it returns None.
C19_SessionIffHandshakeSucceeded ==
    Returned("create_session")
    => /\ (opout.kind = "return" /\ IsSession(opout.val)) <=> HandshakeSucceeded
       /\ ~HandshakeSucceeded => opout = Return(NoneV)

Serialized == Bytes(ToJson(args.payload))

\* 'sent' holds the requests of the call whose arguments 'args' holds.
SentIsCurrent == pc # "call"

C22_CompressedAboveThreshold ==
    SentIsCurrent =>
        \A i \in 1..Len(sent) :
            IF Serialized.len <= 65536
                THEN /\ sent[i].headers["Content-Encoding"] = "identity"
                     /\ sent[i].data = Serialized
                ELSE /\ sent[i].headers["Content-Encoding"] = "deflate"
                     /\ sent[i].data.t = "deflated"

C22_Witness ==
    /\ SentIsCurrent
    /\ Len(sent) = 1
    /\ Serialized.len = 65537
    /\ sent[1].data.t = "deflated"
    /\ sent[1].headers["Content-Encoding"] = "deflate"

\* C23 as stated: under 65536 bytes the encoding is 'identity'; at or over
\* 65536 bytes, exactly 65536 included, it is 'deflate'.
C23_DeflateAtOrOverThreshold ==
    SentIsCurrent =>
        \A i \in 1..Len(sent) :
            sent[i].headers["Content-Encoding"] =
                (IF Serialized.len < 65536 THEN "identity" ELSE "deflate")

\* C23 as amended: at or under 65536 bytes, exactly 65536 included, the
\* encoding is 'identity'; strictly over 65536 bytes it is 'deflate'.
C23_DeflateOverThreshold ==
    SentIsCurrent =>
        \A i \in 1..Len(sent) :
            /\ Serialized.len = 65536 => sent[i].headers["Content-Encoding"] = "identity"
            /\ sent[i].headers["Content-Encoding"] =
                  (IF Serialized.len > 65536 THEN "deflate" ELSE "identity")

C23_Witness ==
    /\ SentIsCurrent
    /\ Len(sent) = 1
    /\ Serialized.len = 65536
    /\ sent[1].headers["Content-Encoding"] = "identity"

\* C24: a compressed payload is compressed at level 1 when it serializes to
\* fewer than 2,000,000 bytes and at level 9 from 2,000,000 bytes on.
C24_LevelBySerializedSize ==
    SentIsCurrent =>
        \A i \in 1..Len(sent) :
            sent[i].data.t = "deflated" =>
                sent[i].data.level = (IF Serialized.len < 2000000 THEN 1 ELSE 9)

C24_Witness ==
    /\ SentIsCurrent
    /\ Len(sent) = 1
    /\ Serialized.len = 2000000
    /\ sent[1].data.t = "deflated"
    /\ sent[1].data.level = 9

\* C25: the Content-Encoding header of a request is 'deflate' exactly when
\* its body is compressed; a 'deflate' body decompresses to the serialized
\* bytes and an 'identity' body is the serialized bytes.
C25_HeaderMatchesBody ==
    SentIsCurrent =>
        \A i \in 1..Len(sent) :
            LET encoding == sent[i].headers["Content-Encoding"] IN
            /\ encoding \in {"identity", "deflate"}
            /\ encoding = "deflate" <=> sent[i].data.t = "deflated"
            /\ sent[i].data.t = "deflated" => ZlibDecompress(sent[i].data) = Serialized
            /\ encoding = "identity" => sent[i].data = Serialized

C25_Witness ==
    /\ SentIsCurrent
    /\ Len(sent) = 1
    /\ sent[1].headers["Content-Encoding"] = "deflate"
    /\ ZlibDecompress(sent[1].data) = Serialized
    /\ Serialized.len > 65536

\* C26: a Session operation issues at most one request and create_session
\* at most two, whatever the outcome; no call of send_request posts twice.
C26_NoRetries ==
    /\ Len(sent) <= 1
    /\ op.name \in SessionOps => Len(wire) <= 1
    /\ op.name = "create_session" => Len(wire) <= 2
    /\ \A i, j \in 1..Len(wire) : wire[i] = wire[j] => i = j

C26_Witness ==
    /\ Returned("send_errors")
    /\ Outcome(opout) = "Retry"
    /\ r = NoResponse
    /\ Len(wire) = 1

\* C27: with the debug flag log_malformed_json_data disabled, no log
\* record of a send_request call holds the payload.
C27_PayloadLoggedOnlyWithFlag ==
    ~settings.log_malformed_json_data =>
        \A i \in 1..Len(log) : ~log[i].payload

SendOps ==
    {"send_metric_data", "send_errors", "send_transaction_traces", "send_sql_traces"}

\* The method name of each operation.
MethodOf(name) ==
    CASE name = "send_metric_data" -> "metric_data"
      [] name = "send_errors" -> "error_data"
      [] name = "send_transaction_traces" -> "transaction_sample_data"
      [] name = "send_sql_traces" -> "sql_trace_data"

Classify(status, content) ==
    LET o == HandleStatus(status, content, FALSE, "identity") IN
    IF o.kind # "none" THEN o
    ELSE LET dec == JsonLoads(content) IN
         IF dec.ok THEN HandleResult(dec.v) ELSE DecodeFailure(FALSE)

\* C29: the outcome of a call that got a response is determined by the
\* status and the body alone: it is the outcome of any other call with
\* that status and body, whatever the method, run id, payload, content
\* encoding and debug flag.
C29_ClassificationIsPure ==
    Answered => Outcome(out) = Outcome(Classify(r.status, r.content))

\* C30: while a request of an operation of the session is outstanding, no
\* request of another caller on the same session is.
C30_OneRequestInFlight ==
    (op.name \in SessionOps /\ pc = "waiting") => other = "idle"

(***************************************************************************)
(* Claims about the endpoint.                                              *)
(***************************************************************************)
\* url % (scheme, server)
UrlString(u) == u.scheme \o "://" \o u.server \o u.path

\* The URL of the default endpoint, as the claim words it.
DefaultUrlString ==
    (IF settings.ssl THEN "https" ELSE "http") \o "://"
    \o (IF settings.port # 0
            THEN settings.host \o ":" \o ToString(settings.port)
        ELSE settings.host)
    \o "/agent_listener/invoke_raw_method"

\* The URL of the endpoint of a redirect host, as the claim words it.
RedirectUrlString(host) ==
    (IF settings.ssl THEN "https" ELSE "http") \o "://" \o host
    \o "/agent_listener/invoke_raw_method"

IsHostString(v) == v.t = "str" /\ v.n > 0

\* The handshake's requests go where the claim says: the first to the
\* default endpoint, the second to the endpoint of the returned host.
HandshakeEndpoints ==
    (op.name = "create_session")
    => /\ Len(wire) >= 1 => UrlString(wire[1].url) = DefaultUrlString
       /\ (Len(wire) = 2 /\ IsHostString(op.redirect_host)) =>
             UrlString(wire[2].url) = RedirectUrlString(op.redirect_host.s)

MaxDeliveries == 2

\* current_transaction(active_only=False): None or a transaction.
Transaction(ignore, stopped) ==
    [t |-> "transaction", ignore_transaction |-> ignore, stopped |-> stopped]

Transactions ==
    {NoneV, Transaction(FALSE, FALSE), Transaction(TRUE, FALSE),
     Transaction(FALSE, TRUE)}

Function(name) == [t |-> "function", name |-> name]
UserCallback == Function("on_message")
OnConsumerMessageDelivery == Function("_on_consumer_message_delivery")

\* _no_trace_methods, as _nr_wrap_BlockingChannel___init__ fills it
no_trace_methods == {OnConsumerMessageDelivery}

Callbacks == {NoneV, UserCallback, OnConsumerMessageDelivery}

\* The methods instrument_pika_channel and instrument_pika_adapters wrap.
Targets ==
    { [obj |-> "Channel.basic_consume", referrer |-> "consumer_callback",
       subscribed |-> TRUE],
      [obj |-> "BlockingChannel.basic_consume", referrer |-> "consumer_callback",
       subscribed |-> TRUE],
      [obj |-> "Channel.basic_get", referrer |-> "callback", subscribed |-> FALSE] }

NoKwargs == [k \in {} |-> NoneV]
Queue == Str("queue", 5)

\* The ways the application calls the method: callback first, callback by
\* keyword, and, for basic_get, no callback at all.
CallsOf(target) ==
    {[args |-> <<cb, Queue>>, kwargs |-> NoKwargs] : cb \in Callbacks}
    \cup {[args |-> <<>>, kwargs |-> (target.referrer :> cb) @@ ("queue" :> Queue)] :
             cb \in Callbacks}
    \cup (IF target.referrer = "callback"
              THEN {[args |-> <<>>, kwargs |-> ("queue" :> Queue)]} ELSE {})

\* _consumer_callback_bind_params / _callback_bind_params
bind_params(referrer, call) ==
    IF Len(call.args) > 0 THEN call.args[1]
    ELSE IF referrer \in DOMAIN call.kwargs THEN call.kwargs[referrer]
    ELSE NoneV

\* Faulty variant: outside a transaction the callback is wrapped in a
\* BackgroundTask whether subscribed or not.
WrapKind_AlwaysBackground(transaction, callback, subscribed) ==
    IF Truthy(transaction) /\ (transaction.ignore_transaction \/ transaction.stopped)
        THEN "none"
    ELSE IF callback \in no_trace_methods THEN "none"
    ELSE IF callback = NoneV THEN "none"
    ELSE IF Truthy(transaction) THEN "function_trace"
    ELSE "background_task"

\* The if/elif chain that defines wrapped_callback, "none" when it stays None.
WrapKind(transaction, callback, subscribed) ==
    IF Truthy(transaction) /\ (transaction.ignore_transaction \/ transaction.stopped)
        THEN "none"
    ELSE IF callback \in no_trace_methods THEN "none"
    ELSE IF callback = NoneV THEN "none"
    ELSE IF Truthy(transaction) THEN "function_trace"
    ELSE IF subscribed THEN "background_task"
    ELSE "none"

\* The function 'def wrapped_callback' creates.
WrappedCallback(kind, callback, transaction) ==
    [t |-> "wrapper", kind |-> kind, callback |-> callback,
     transaction |-> transaction]

\* args[0] = wrapped_callback, or kwargs[callback_referrer] = wrapped_callback
ReplaceCallback(call, referrer, w) ==
    IF Len(call.args) > 0 THEN [call EXCEPT !.args[1] = w]
    ELSE [call EXCEPT !.kwargs =
             [k \in DOMAIN call.kwargs \cup {referrer} |->
                 IF k = referrer THEN w ELSE call.kwargs[k]]]

\* _nr_wrapper_Channel_consume_: the wrapped method is called with the
\* callback as passed or with its replacement.
nr_wrapper_Channel_consume ==
    /\ chan.phase = "none"
    /\ \E target \in Targets, transaction \in Transactions :
       \E call \in CallsOf(target) :
          LET callback == bind_params(target.referrer, call)
              kind == WrapKind(transaction, callback, target.subscribed)
              passed == IF kind = "none" THEN call
                        ELSE ReplaceCallback(call, target.referrer,
                                 WrappedCallback(kind, callback, transaction))
          IN chan' = [phase |-> "consumed", target |-> target,
                      transaction |-> transaction, call |-> call,
                      wrapped |-> <<passed>>, deliveries |-> <<>>,
                      invocations |-> <<>>, traces |-> <<>>]
    /\ UNCHANGED <<settings, sendvars, op, opout, wire, session, terminal, calls,
                   other, gen>>

\* What the library passes to the callback for a message.
Method(exchange) == [t |-> "method", exchange |-> exchange, routing_key |-> "key"]
Delivered(exchange) ==
    <<Str("channel", 7), Method(exchange), NoneV, Str("body", 4)>>

Deliveries ==
    {[args |-> Delivered(x), kwargs |-> NoKwargs] : x \in {"", "orders"}}
    \cup {[args |-> <<>>,
           kwargs |-> [channel |-> Str("channel", 7), method |-> Method("orders"),
                       properties |-> NoneV, body |-> Str("body", 4)]]}

\* method.exchange or 'Default'; 'Unknown' when the arguments came by keyword
ExchangeOf(delivery) ==
    IF DOMAIN delivery.kwargs # {} THEN "Unknown"
    ELSE IF delivery.args[2].exchange = "" THEN "Default"
    ELSE delivery.args[2].exchange

\* The traces a call of the callback records before the user callback runs.
TracesOf(cb, delivery) ==
    IF cb.t # "wrapper" THEN <<>>
    ELSE (IF cb.kind = "background_task"
              THEN <<[trace |-> "BackgroundTask",
                      name |-> "Named/" \o ExchangeOf(delivery)]>>
          ELSE <<>>)
         \o (IF DOMAIN delivery.kwargs = {}
                 THEN <<[trace |-> "AmqpTrace", name |-> ExchangeOf(delivery)]>>
             ELSE <<[trace |-> "kwargs_error", name |-> ""]>>)
         \o <<[trace |-> "FunctionTrace", name |-> cb.callback.name]>>

\* The call of the user callback: callback(*args, **kwargs).
InvocationOf(cb, delivery) ==
    IF cb.t # "wrapper"
        THEN [callback |-> cb, call |-> delivery, within |-> "none",
              transaction |-> NoneV]
    ELSE [callback |-> cb.callback, call |-> delivery, within |-> "FunctionTrace",
          transaction |-> IF cb.kind = "background_task"
                              THEN [t |-> "transaction", background |-> TRUE]
                          ELSE cb.transaction]

\* The library delivers a message: it calls the callback it was given.
Deliver ==
    /\ chan.phase = "consumed"
    /\ Len(chan.deliveries) < MaxDeliveries
    /\ LET cb == bind_params(chan.target.referrer, chan.wrapped[1]) IN
       /\ cb # NoneV
       /\ \E delivery \in Deliveries :
             chan' = [chan EXCEPT
                         !.deliveries = Append(@, delivery),
                         !.invocations = Append(@, InvocationOf(cb, delivery)),
                         !.traces = @ \o TracesOf(cb, delivery)]
    /\ UNCHANGED <<settings, sendvars, op, opout, wire, session, terminal, calls,
                   other, gen>>

NextChannel == nr_wrapper_Channel_consume \/ Deliver

SpecChannel == Init /\ [][NextChannel]_vars

\* The callback the application passed and the one the library received.
PassedCallback == bind_params(chan.target.referrer, chan.call)
ReceivedCallback == bind_params(chan.target.referrer, chan.wrapped[1])

\* The behaviour the claim's four cases name for a call.
ExpectedBehaviour ==
    LET tx == chan.transaction
        inactive == tx # NoneV /\ (tx.ignore_transaction \/ tx.stopped)
    IN IF inactive \/ PassedCallback \in no_trace_methods \/ PassedCallback = NoneV
           THEN "unwrapped"
       ELSE IF tx # NoneV THEN "function_trace"
       ELSE IF chan.target.subscribed THEN "background_task"
       ELSE "unwrapped"

\* C32: each basic_consume / basic_get call gets the behaviour of its case:
\* unwrapped, FunctionTrace of the active transaction, or new
\* BackgroundTask; the wrapped method is invoked once, with every argument
\* but the callback as passed, and each delivered message invokes the user
\* callback once with the delivered arguments.
C32_OneOfFourBehaviours ==
    (chan.phase = "consumed")
    => /\ Len(chan.wrapped) = 1
       /\ Len(chan.wrapped[1].args) = Len(chan.call.args)
       /\ \A i \in 2..Len(chan.call.args) : chan.wrapped[1].args[i] = chan.call.args[i]
       /\ \A k \in DOMAIN chan.call.kwargs \ {chan.target.referrer} :
             k \in DOMAIN chan.wrapped[1].kwargs
             /\ chan.wrapped[1].kwargs[k] = chan.call.kwargs[k]
       /\ IF ExpectedBehaviour = "unwrapped"
              THEN chan.wrapped[1] = chan.call
              ELSE /\ ReceivedCallback.t = "wrapper"
                   /\ ReceivedCallback.kind = ExpectedBehaviour
                   /\ ReceivedCallback.callback = PassedCallback
                   /\ ExpectedBehaviour = "function_trace" =>
                         ReceivedCallback.transaction = chan.transaction
       /\ Len(chan.invocations) = Len(chan.deliveries)
       /\ \A i \in 1..Len(chan.deliveries) :
             /\ chan.invocations[i].callback = PassedCallback
             /\ chan.invocations[i].call = chan.deliveries[i]
             /\ chan.invocations[i].within =
                   (IF ExpectedBehaviour = "unwrapped" THEN "none" ELSE "FunctionTrace")
             /\ ExpectedBehaviour = "function_trace" =>
                   chan.invocations[i].transaction = chan.transaction
             /\ ExpectedBehaviour = "background_task" =>
                   chan.invocations[i].transaction \notin {NoneV, chan.transaction}

C32_Witness ==
    /\ chan.phase = "consumed"
    /\ chan.target.obj = "Channel.basic_consume"
    /\ chan.transaction = NoneV
    /\ ReceivedCallback.t = "wrapper"
    /\ ReceivedCallback.kind = "background_task"
    /\ Len(chan.deliveries) = 2
    /\ chan.invocations[2].callback = UserCallback
    /\ chan.invocations[2].call = chan.deliveries[2]

(***************************************************************************)
(* messagebroker_pika: _ConsumeGeneratorWrapper, the generator that        *)
(* stands between the consumer and the generator BlockingChannel.consume   *)
(* returns.  One step is what the wrapper does between two of its yields.  *)
(***************************************************************************)
MaxOps == 3

\* current_transaction(), read at the top of every iteration: None or the
\* active transaction.
CurrentTransactions == {NoneV, Transaction(FALSE, FALSE)}

\* An item of BlockingChannel.consume: (method, properties, body), or None
\* when the inactivity timeout passes.
Item(n) == Tuple(<<[t |-> "method", exchange |-> "orders", nr_start_time |-> n],
                   NoneV, Str("body", 4)>>)
Items == {Item(1), Item(2), NoneV}

SentValues == {NoneV, Str("v", 1)}
ThrownExceptions == {"KeyError", "KeyboardInterrupt"}

\* What the underlying generator does when it is resumed: it yields an
\* item, returns, or raises.
Yields == {[kind |-> "yield", item |-> i, exc |-> ""] : i \in Items}
SendResponses ==
    Yields \cup {[kind |-> "stop", item |-> NoneV, exc |-> ""],
                 [kind |-> "raise", item |-> NoneV, exc |-> "ChannelClosed"]}
ThrowResponses(e) ==
    Yields \cup {[kind |-> "stop", item |-> NoneV, exc |-> ""],
                 [kind |-> "raise", item |-> NoneV, exc |-> e]}

\* _add_consume_rabbitmq_trace(transaction, ...): the exception it raises,
\* "" for none.  It reads and assigns transaction.start_time.
add_consume_rabbitmq_trace(transaction) ==
    IF transaction = NoneV THEN "AttributeError" ELSE ""

\* finally: generator.close()
Finally(g, state, error) ==
    [g EXCEPT !.state = state, !.error = error,
              !.forwarded = Append(@, [kind |-> "close", arg |-> NoneV])]

\* The rest of an iteration of 'while True' once the underlying generator
\* has answered generator.send (traced) or generator.throw (not traced).
Iteration(g0, transaction, resp, traced) ==
    LET g == [g0 EXCEPT !.transactions = Append(@, transaction)]
    IN
    IF resp.kind = "yield"
        THEN LET g1 == [g EXCEPT !.produced = Append(@, resp.item)]
                 failure == IF traced /\ Truthy(resp.item)
                                THEN add_consume_rabbitmq_trace(transaction)
                            ELSE ""
             IN IF failure # "" THEN Finally(g1, "failed", failure)
                ELSE [g1 EXCEPT !.state = "suspended",
                                !.yielded = Append(@, resp.item),
                                !.traces = IF traced /\ Truthy(resp.item)
                                               THEN @ + 1 ELSE @]
    ELSE IF resp.kind = "stop" THEN Finally(g, "finished", "")
    ELSE Finally(g, "failed", resp.exc)

Started(g) == g.state \notin {"none", "passed", "created"}
Ended(g) == g.state \in {"finished", "failed", "closed"}

\* wrapper(wrapped, instance, args, kwargs): the result of the wrapped
\* consume is wrapped when it is a generator and returned as it is otherwise.
ConsumeGeneratorWrapper ==
    /\ gen.state = "none"
    /\ \/ gen' = [state |-> "created", transactions |-> <<>>,
                  received |-> <<>>, forwarded |-> <<>>, produced |-> <<>>,
                  yielded |-> <<>>, traces |-> 0, error |-> ""]
       \/ gen' = [state |-> "passed"]
    /\ UNCHANGED <<settings, sendvars, op, opout, wire, session, terminal, calls,
                   other, chan>>

\* next(g) / g.send(value): the wrapper passes the value on with
\* generator.send.  A generator not yet started accepts None only.
GeneratorSend ==
    /\ gen.state \in {"created", "suspended"}
    /\ Len(gen.received) < MaxOps
    /\ \E value \in SentValues :
          /\ gen.state = "created" => value = NoneV
          /\ \E transaction \in CurrentTransactions, resp \in SendResponses :
                LET op1 == [kind |-> "send", arg |-> value, started |-> TRUE]
                    g == [gen EXCEPT !.received = Append(@, op1),
                                     !.forwarded =
                                         Append(@, [kind |-> "send", arg |-> value])]
                IN gen' = Iteration(g, transaction, resp, TRUE)
    /\ UNCHANGED <<settings, sendvars, op, opout, wire, session, terminal, calls,
                   other, chan>>

\* g.throw(exc): at the yield, 'except Exception' keeps the exception for
\* generator.throw; any other exception leaves through 'finally'.  In a
\* generator not yet started the exception is raised before the body runs.
GeneratorThrow ==
    /\ gen.state \in {"created", "suspended"}
    /\ Len(gen.received) < MaxOps
    /\ \E e \in ThrownExceptions :
          LET op1 == [kind |-> "throw", arg |-> Str(e, 0),
                      started |-> gen.state = "suspended"]
              g == [gen EXCEPT !.received = Append(@, op1)]
          IN IF gen.state = "created"
                 THEN gen' = [g EXCEPT !.state = "failed", !.error = e]
             ELSE IF IsInstance(e, "Exception")
                 THEN \E transaction \in CurrentTransactions,
                         resp \in ThrowResponses(e) :
                         gen' = Iteration(
                                    [g EXCEPT !.forwarded =
                                        Append(@, [kind |-> "throw", arg |-> Str(e, 0)])],
                                    transaction, resp, FALSE)
             ELSE gen' = Finally(g, "failed", e)
    /\ UNCHANGED <<settings, sendvars, op, opout, wire, session, terminal, calls,
                   other, chan>>

\* g.close(): GeneratorExit is raised at the yield and leaves through
\* 'finally'; a generator not yet started just ends.
GeneratorClose ==
    /\ gen.state \in {"created", "suspended"}
    /\ gen' = IF gen.state = "created" THEN [gen EXCEPT !.state = "closed"]
              ELSE Finally(gen, "closed", "")
    /\ UNCHANGED <<settings, sendvars, op, opout, wire, session, terminal, calls,
                   other, chan>>

NextConsume ==
    ConsumeGeneratorWrapper \/ GeneratorSend \/ GeneratorThrow \/ GeneratorClose

SpecConsume == Init /\ [][NextConsume]_vars

\* What the consumer handed to the started wrapper for the underlying
\* generator: the values sent and the exceptions thrown.
IsForwardable(o) ==
    o.started /\ (o.kind = "send" \/ IsInstance(o.arg.s, "Exception"))
IsNotClose(o) == o.kind # "close"
Stripped(o) == [kind |-> o.kind, arg |-> o.arg]
HandedOver ==
    LET ops == SelectSeq(gen.received, IsForwardable)
    IN [i \in 1..Len(ops) |-> Stripped(ops[i])]

\* C33: the wrapper passes every value and exception it is given to the
\* underlying generator in order, yields exactly the items the underlying
\* generator yields, and closes the underlying generator once it has
\* finished, been closed or failed.
C33_GeneratorIsTransparent ==
    (gen.state \notin {"none", "passed"})
    => /\ SelectSeq(gen.forwarded, IsNotClose) = HandedOver
       /\ gen.yielded = gen.produced
       /\ (Ended(gen) /\ gen.forwarded # <<>>) =>
             gen.forwarded[Len(gen.forwarded)].kind = "close"

\* The same inside a transaction.
TransparentInsideTransaction ==
    (/\ gen.state \notin {"none", "passed"}
     /\ \A i \in 1..Len(gen.transactions) : gen.transactions[i] # NoneV)
    => C33_GeneratorIsTransparent

====
